---- MODULE Spec2Model ----
(***************************************************************************)
(* Network topology resolver of liesas-quickstart (src/src/config.rs) and  *)
(* the start command that drives it (src/src/commands/start.rs,            *)
(* src/src/codespan.rs).                                                   *)
(*                                                                         *)
(* A network description is an ordered list of node specs.  The start      *)
(* command parses it, then NetworkConfig::resolve feeds the specs one by   *)
(* one, in order, to ResolvedNetworkConfig::resolve, which appends         *)
(* validators to a global pool, names every instance and inserts it into   *)
(* one name table.  The first error ends the resolution and is reported.   *)
(***************************************************************************)
EXTENDS Integers, Sequences, FiniteSets, TLC

(***************************************************************************)
(* Bounds of the model.                                                    *)
(***************************************************************************)
\* A config lists at most MaxSpecs node specs,
MaxSpecs == 3
\* asks for at most MaxNodes node instances in total (the sum of count),
MaxNodes == 5
\* and for at most MaxValidators validators in total (the sum of
\* count * validator_count).
MaxValidators == 7

\* The configs around the example of two node tables: at most ExampleSpecs
\* tables, ExampleNodes instances and ExampleValidators validators.
ExampleSpecs == 2
ExampleNodes == 3
ExampleValidators == 9

(***************************************************************************)
(* Input values.                                                           *)
(***************************************************************************)
\* `name: Option<Spanned<String>>` is None.
NoName == "<none>"

\* The explicit names the configs give: the text of a client kind, and a
\* name of the shape of a generated one.
Names == {"zeam", "zeam_0"}

\* The explicit name of the example config.
ExampleNames == {"a"}

\* strum Display with serialize_all = "snake_case".
ClientKindToString(kind) ==
    CASE kind = "Ream" -> "ream"
      [] kind = "Zeam" -> "zeam"
      [] kind = "Qlean" -> "qlean"
      [] kind = "Lantern" -> "lantern"
      [] kind = "Lighthouse" -> "lighthouse"
      [] kind = "Grandine" -> "grandine"
      [] kind = "Ethrex" -> "ethrex"

\* Spans given by the spanned deserializer: the byte range of one field of
\* one node table, abstracted to (position of the node table, field).
NameSpan(i) == [node |-> i, field |-> "name"]
ClientSpan(i) == [node |-> i, field |-> "client"]
CountSpan(i) == [node |-> i, field |-> "count"]

default_count == 1
default_validator_count == 1

\* The (name, client) pairs of the node tables: no name and kind zeam, or
\* one of `names`.  The resolver reads the client kind only of a spec
\* without a name, so the named specs are enumerated with one kind.
Identities(names) ==
    {[name |-> NoName, client |-> "Zeam"]}
    \cup {[name |-> n, client |-> "Ream"] : n \in names}

\* The node tables that ask for at most `nodes` instances and `vals`
\* validators (validator_count >= 1, as the input format asks).
\* validator_count of a spec with count = 0 is never read.
NodeTables(names, nodes, vals) ==
    {[name |-> id.name, client |-> id.client, count |-> 0,
      validator_count |-> default_validator_count] : id \in Identities(names)}
    \cup
    UNION {UNION {{[name |-> id.name, client |-> id.client, count |-> c,
                    validator_count |-> v] : id \in Identities(names)}
                  : v \in {w \in 1..vals : c * w <= vals}}
           : c \in 1..nodes}

\* What the file holds, by what toml::de::from_str makes of it: a
\* NetworkConfig, or an error with or without a span.
Parsed(list) == [parses |-> TRUE, node |-> list]
Malformed(span) == [parses |-> FALSE, span |-> span]

\* `src` is a parsed file whose list of node tables extends `list` by at
\* most n tables, named from `names`, that ask for at most `nodes`
\* instances and `vals` validators more.
RECURSIVE Extends(_, _, _, _, _, _)
Extends(src, list, names, n, nodes, vals) ==
    \/ src = Parsed(list)
    \/ /\ n > 0
       /\ \E t \in NodeTables(names, nodes, vals) :
            Extends(src, Append(list, t), names, n - 1, nodes - t.count,
                    vals - t.count * t.validator_count)

\* The files of the model: malformed ones, and every list of node tables
\* within the bounds.
Sources(src, names, n, nodes, vals) ==
    \/ \E span \in BOOLEAN : src = Malformed(span)
    \/ Extends(src, <<>>, names, n, nodes, vals)

\* The parsed NetworkConfig.node: each table with the spans of its fields.
Spanned(list) ==
    [i \in DOMAIN list |->
        [name |-> list[i].name, name_span |-> NameSpan(i),
         client |-> list[i].client, client_span |-> ClientSpan(i),
         count |-> list[i].count, count_span |-> CountSpan(i),
         validator_count |-> list[i].validator_count]]

(***************************************************************************)
(* config.rs: names, definitions, errors.                                  *)
(***************************************************************************)
NameSource(span) == [tag |-> "Name", span |-> span]
KindSource(span) == [tag |-> "Kind", span |-> span]

Singular(source) == [tag |-> "Singular", source |-> source]
Prefix(prefix, prefix_span, count_span) ==
    [tag |-> "Prefix", prefix |-> prefix, prefix_span |-> prefix_span,
     count_span |-> count_span]

NoError == [tag |-> "Ok"]
InvalidCount(span) == [tag |-> "InvalidCount", span |-> span]

\* Mutant: the two definitions are stored in each other's field.
DuplicateName_Swapped(name, curr_def, prev_def) ==
    [tag |-> "DuplicateName", name |-> name, curr_def |-> prev_def,
     prev_def |-> curr_def]

DuplicateName(name, curr_def, prev_def) ==
    [tag |-> "DuplicateName", name |-> name, curr_def |-> curr_def,
     prev_def |-> prev_def]

\* ConfigError::span
ErrorSpan(err) ==
    IF err.tag = "InvalidCount" THEN err.span
    ELSE IF err.curr_def.tag = "Singular" THEN err.curr_def.source.span
    ELSE err.curr_def.prefix_span.span

\* Mutant: an identity taken from the client kind is recorded as if it had
\* been written as a name.
NodeId_KindAsName(node) ==
    IF node.name # NoName
    THEN [id |-> node.name, span |-> NameSource(node.name_span)]
    ELSE [id |-> ClientKindToString(node.client),
          span |-> NameSource(node.client_span)]

\* (node_id, node_id_span): the explicit name, else the client kind's text.
NodeId(node) ==
    IF node.name # NoName
    THEN [id |-> node.name, span |-> NameSource(node.name_span)]
    ELSE [id |-> ClientKindToString(node.client),
          span |-> KindSource(node.client_span)]

\* Mutant: the separator is missing.
GeneratedName_NoSeparator(node_id, index) == node_id \o ToString(index)

\* format!("{}_{index}", node_id)
GeneratedName(node_id, index) == node_id \o "_" \o ToString(index)

NUM_ACTIVE_EPOCHS == 262144

\* validator.rs, generate_keypair: the (public key, private key) that
\* LeanSigScheme::key_gen makes for the two epochs.  The random generator's
\* part in the keys is left out: a key is known by the call that made it.
generate_keypair(activation_epoch, num_active_epochs) ==
    << [tag |-> "PublicKey", activation_epoch |-> activation_epoch,
        num_active_epochs |-> num_active_epochs],
       [tag |-> "PrivateKey", activation_epoch |-> activation_epoch,
        num_active_epochs |-> num_active_epochs] >>

\* The slot pushed at config.rs:297-302: the call of generate_keypair at
\* line 296 is commented out, both keys are Vec::new().
ResolvedValidatorConfig == [private_key |-> <<>>, public_key |-> <<>>]

EmptyResolved == [validators |-> <<>>, nodes |-> <<>>, counters |-> <<>>]

\* Mutant: the index is read after the push.
RECURSIVE PushValidators_IndexAfterPush(_, _, _)
PushValidators_IndexAfterPush(validators, validator_indices, left) ==
    IF left = 0
    THEN [validators |-> validators, validator_indices |-> validator_indices]
    ELSE PushValidators_IndexAfterPush(
             Append(validators, ResolvedValidatorConfig),
             Append(validator_indices, Len(validators) + 1),
             left - 1)

\* Mutant: the index is the position in the node's own list.
RECURSIVE PushValidators_LocalIndex(_, _, _)
PushValidators_LocalIndex(validators, validator_indices, left) ==
    IF left = 0
    THEN [validators |-> validators, validator_indices |-> validator_indices]
    ELSE PushValidators_LocalIndex(
             Append(validators, ResolvedValidatorConfig),
             Append(validator_indices, Len(validator_indices)),
             left - 1)

\* Mutant: the loop runs over 0..=validator_count.
RECURSIVE PushValidators_Inclusive(_, _, _)
PushValidators_Inclusive(validators, validator_indices, left) ==
    IF left = 0
    THEN [validators |-> Append(validators, ResolvedValidatorConfig),
          validator_indices |-> Append(validator_indices, Len(validators))]
    ELSE PushValidators_Inclusive(
             Append(validators, ResolvedValidatorConfig),
             Append(validator_indices, Len(validators)),
             left - 1)

\* Mutant: every instance starts a pool of its own, the entries pushed
\* before it are lost.
RECURSIVE PushValidators_NewPool(_, _, _)
PushValidators_NewPool(validators, validator_indices, left) ==
    IF left = 0
    THEN [validators |-> validators, validator_indices |-> validator_indices]
    ELSE PushValidators_NewPool(
             IF validator_indices = <<>> THEN <<ResolvedValidatorConfig>>
             ELSE Append(validators, ResolvedValidatorConfig),
             Append(validator_indices,
                    IF validator_indices = <<>> THEN 0 ELSE Len(validators)),
             left - 1)

\* The inner loop of one instance: `left` more validators are pushed, each
\* index being the pool's length before the push.
RECURSIVE PushValidators(_, _, _)
PushValidators(validators, validator_indices, left) ==
    IF left = 0
    THEN [validators |-> validators, validator_indices |-> validator_indices]
    ELSE PushValidators(Append(validators, ResolvedValidatorConfig),
                        Append(validator_indices, Len(validators)),
                        left - 1)

\* Mutant: the counter of a prefix starts at 1.
NextIndex_FromOne(counters, node_id) ==
    IF node_id \in DOMAIN counters THEN counters[node_id] + 1 ELSE 1

\* Mutant: the counter restarts with every use.
NextIndex_Restart(counters, node_id) == 0

\* counters.entry(node_id).and_modify(|v| *v += 1).or_insert(0)
NextIndex(counters, node_id) ==
    IF node_id \in DOMAIN counters THEN counters[node_id] + 1 ELSE 0

\* HashMap::insert: the entry is stored, replacing any entry of that key.
Insert(map, key, value) == (key :> value) @@ map

\* Mutant: a collision of a generated name is dropped without an error
\* (the new entry replaces the old one and the loop goes on).
RECURSIVE ResolveInstances_SilentPrefix(_, _, _)
ResolveInstances_SilentPrefix(self, node, left) ==
    IF left = 0 THEN [self |-> self, err |-> NoError]
    ELSE
      LET pushed == PushValidators(self.validators, <<>>, node.validator_count)
          node_id == NodeId(node)
          index == NextIndex(self.counters, node_id.id)
          name == IF node.count = 1 THEN node_id.id
                  ELSE GeneratedName(node_id.id, index)
          def == IF node.count = 1 THEN Singular(node_id.span)
                 ELSE Prefix(node_id.id, node_id.span, node.count_span)
          counters == IF node.count = 1 THEN self.counters
                      ELSE Insert(self.counters, node_id.id, index)
          resolved == [def |-> def, validators |-> pushed.validator_indices]
          after == [validators |-> pushed.validators,
                    nodes |-> Insert(self.nodes, name, resolved),
                    counters |-> counters]
      IN IF name \in DOMAIN self.nodes /\ node.count = 1
         THEN [self |-> after,
               err |-> DuplicateName(name, def, self.nodes[name].def)]
         ELSE ResolveInstances_SilentPrefix(after, node, left - 1)

\* Mutant: after a collision the remaining instances of the spec are still
\* resolved, and the first collision's error is returned at the end.
RECURSIVE ResolveInstances_FinishSpec(_, _, _)
ResolveInstances_FinishSpec(self, node, left) ==
    IF left = 0 THEN [self |-> self, err |-> NoError]
    ELSE
      LET pushed == PushValidators(self.validators, <<>>, node.validator_count)
          node_id == NodeId(node)
          index == NextIndex(self.counters, node_id.id)
          name == IF node.count = 1 THEN node_id.id
                  ELSE GeneratedName(node_id.id, index)
          def == IF node.count = 1 THEN Singular(node_id.span)
                 ELSE Prefix(node_id.id, node_id.span, node.count_span)
          counters == IF node.count = 1 THEN self.counters
                      ELSE Insert(self.counters, node_id.id, index)
          resolved == [def |-> def, validators |-> pushed.validator_indices]
          after == [validators |-> pushed.validators,
                    nodes |-> Insert(self.nodes, name, resolved),
                    counters |-> counters]
      IN IF name \in DOMAIN self.nodes
         THEN [self |-> ResolveInstances_FinishSpec(after, node,
                                                    left - 1).self,
               err |-> DuplicateName(name, def, self.nodes[name].def)]
         ELSE ResolveInstances_FinishSpec(after, node, left - 1)

\* Mutant: a spec with count = 1 advances the counter of its name too.
RECURSIVE ResolveInstances_SingularCounts(_, _, _)
ResolveInstances_SingularCounts(self, node, left) ==
    IF left = 0 THEN [self |-> self, err |-> NoError]
    ELSE
      LET pushed == PushValidators(self.validators, <<>>, node.validator_count)
          node_id == NodeId(node)
          index == NextIndex(self.counters, node_id.id)
          name == IF node.count = 1 THEN node_id.id
                  ELSE GeneratedName(node_id.id, index)
          def == IF node.count = 1 THEN Singular(node_id.span)
                 ELSE Prefix(node_id.id, node_id.span, node.count_span)
          counters == Insert(self.counters, node_id.id, index)
          resolved == [def |-> def, validators |-> pushed.validator_indices]
          after == [validators |-> pushed.validators,
                    nodes |-> Insert(self.nodes, name, resolved),
                    counters |-> counters]
      IN IF name \in DOMAIN self.nodes
         THEN [self |-> after,
               err |-> DuplicateName(name, def, self.nodes[name].def)]
         ELSE ResolveInstances_SingularCounts(after, node, left - 1)

\* The outer loop of ResolvedNetworkConfig::resolve with `left` instances
\* of `node` still to resolve.  Returns the state and NoError or the error.
RECURSIVE ResolveInstances(_, _, _)
ResolveInstances(self, node, left) ==
    IF left = 0 THEN [self |-> self, err |-> NoError]
    ELSE
      LET pushed == PushValidators(self.validators, <<>>, node.validator_count)
          node_id == NodeId(node)
          index == NextIndex(self.counters, node_id.id)
          name == IF node.count = 1 THEN node_id.id
                  ELSE GeneratedName(node_id.id, index)
          def == IF node.count = 1 THEN Singular(node_id.span)
                 ELSE Prefix(node_id.id, node_id.span, node.count_span)
          counters == IF node.count = 1 THEN self.counters
                      ELSE Insert(self.counters, node_id.id, index)
          resolved == [def |-> def, validators |-> pushed.validator_indices]
          after == [validators |-> pushed.validators,
                    nodes |-> Insert(self.nodes, name, resolved),
                    counters |-> counters]
      IN IF name \in DOMAIN self.nodes
         THEN [self |-> after,
               err |-> DuplicateName(name, def, self.nodes[name].def)]
         ELSE ResolveInstances(after, node, left - 1)

\* Mutant: count is not checked.
ResolveNodeConfig_NoCountCheck(self, node) ==
    ResolveInstances(self, node, node.count)

\* Mutant: the name is looked up before the count is checked, and a spec
\* with count = 0 whose name is taken is reported as a duplicate.
ResolveNodeConfig_NameCheckFirst(self, node) ==
    IF node.count = 0
    THEN IF NodeId(node).id \in DOMAIN self.nodes
         THEN [self |-> self,
               err |-> DuplicateName(NodeId(node).id,
                           Singular(NodeId(node).span),
                           self.nodes[NodeId(node).id].def)]
         ELSE [self |-> self, err |-> InvalidCount(node.count_span)]
    ELSE ResolveInstances(self, node, node.count)

\* ResolvedNetworkConfig::resolve(&mut self, node)
ResolveNodeConfig(self, node) ==
    IF node.count = 0
    THEN [self |-> self, err |-> InvalidCount(node.count_span)]
    ELSE ResolveInstances(self, node, node.count)

(***************************************************************************)
(* State.                                                                  *)
(***************************************************************************)
VARIABLES
    source,        \* the config file's text, by what the TOML layer makes of it
    config,        \* run's `config`: the parsed NetworkConfig.node
    idx,           \* NetworkConfig::resolve: position of its iterator
    resolved,      \* NetworkConfig::resolve: its local `resolved`
    ret,           \* the value the last `resolved.resolve(node)` returned
    result,        \* the value NetworkConfig::resolve returned to run
    run_resolved,  \* run's `resolved` binding
    stderr,        \* what a reporter printed
    exit_code,     \* the status the process exited with
    pc             \* where the start command is

vars == <<source, config, idx, resolved, ret, result, run_resolved, stderr,
          exit_code, pc>>

None == [tag |-> "None"]
Ok(value) == [tag |-> "Ok", value |-> value]
Err(error) == [tag |-> "Err", error |-> error]

\* sysexits::ExitCode::Config
EX_CONFIG == 78

\* The start command has read the file and is about to parse it.
StartState ==
    /\ config = <<>>
    /\ idx = 0
    /\ resolved = None
    /\ ret = None
    /\ result = None
    /\ run_resolved = None
    /\ stderr = None
    /\ exit_code = None
    /\ pc = "parse"

Init ==
    /\ Sources(source, Names, MaxSpecs, MaxNodes, MaxValidators)
    /\ StartState

(***************************************************************************)
(* StartCommand::run: toml::de::from_str.                                  *)
(***************************************************************************)
ParseOk ==
    /\ pc = "parse"
    /\ source.parses
    /\ config' = Spanned(source.node)
    /\ pc' = "resolve"
    /\ UNCHANGED <<source, idx, resolved, ret, result, run_resolved, stderr,
                   exit_code>>

\* Mutant: a parse failure is not reported; the start command goes on to
\* resolve a config without node tables.
ParseErr_Resolves ==
    /\ pc = "parse"
    /\ ~source.parses
    /\ pc' = "resolve"
    /\ UNCHANGED <<source, config, idx, resolved, ret, result, run_resolved,
                   stderr, exit_code>>

ParseErr ==
    /\ pc = "parse"
    /\ ~source.parses
    /\ pc' = "toml_error"
    /\ UNCHANGED <<source, config, idx, resolved, ret, result, run_resolved,
                   stderr, exit_code>>

\* report_toml_error: a plain message when the error has no span or the
\* report cannot be printed; the process exits in every case.
ReportTomlError ==
    /\ pc = "toml_error"
    /\ \E printed \in BOOLEAN :
         stderr' = IF source.span /\ printed
                   THEN [tag |-> "report", labels |-> 1]
                   ELSE [tag |-> "plain"]
    /\ exit_code' = [tag |-> "Exit", code |-> EX_CONFIG]
    /\ pc' = "exited"
    /\ UNCHANGED <<source, config, idx, resolved, ret, result, run_resolved>>

(***************************************************************************)
(* NetworkConfig::resolve.                                                 *)
(***************************************************************************)
\* let mut resolved = ResolvedNetworkConfig { .. empty .. }
ResolveNew ==
    /\ pc = "resolve"
    /\ resolved' = EmptyResolved
    /\ idx' = 1
    /\ pc' = "loop"
    /\ UNCHANGED <<source, config, ret, result, run_resolved, stderr,
                   exit_code>>

\* Mutant: the node tables are taken in another order than the file's
\* (from the last to the first).
ResolveNode_Reversed ==
    /\ pc = "loop"
    /\ idx <= Len(config)
    /\ LET r == ResolveNodeConfig(resolved, config[Len(config) + 1 - idx])
       IN /\ resolved' = r.self
          /\ ret' = r.err
          /\ pc' = IF r.err = NoError THEN "loop" ELSE "failed"
    /\ idx' = idx + 1
    /\ UNCHANGED <<source, config, result, run_resolved, stderr, exit_code>>

\* One iteration: resolved.resolve(node) on the next node of the list.
ResolveNode ==
    /\ pc = "loop"
    /\ idx <= Len(config)
    /\ LET r == ResolveNodeConfig(resolved, config[idx])
       IN /\ resolved' = r.self
          /\ ret' = r.err
          /\ pc' = IF r.err = NoError THEN "loop" ELSE "failed"
    /\ idx' = idx + 1
    /\ UNCHANGED <<source, config, result, run_resolved, stderr, exit_code>>

\* Mutant: the `?` is missing, the error is ignored and the loop goes on.
ResolveErr_Ignored ==
    /\ pc = "failed"
    /\ pc' = "loop"
    /\ UNCHANGED <<source, config, idx, resolved, ret, result, run_resolved,
                   stderr, exit_code>>

\* The `?` of the loop body: the error is returned, `resolved` is dropped.
ResolveErr ==
    /\ pc = "failed"
    /\ result' = Err(ret)
    /\ resolved' = None
    /\ pc' = "resolve_returned"
    /\ UNCHANGED <<source, config, idx, ret, run_resolved, stderr, exit_code>>

\* The list is exhausted: Ok(resolved).
ResolveOk ==
    /\ pc = "loop"
    /\ idx > Len(config)
    /\ result' = Ok(resolved)
    /\ resolved' = None
    /\ pc' = "resolve_returned"
    /\ UNCHANGED <<source, config, idx, ret, run_resolved, stderr, exit_code>>

(***************************************************************************)
(* StartCommand::run: after config.resolve().                              *)
(***************************************************************************)
RunOk ==
    /\ pc = "resolve_returned"
    /\ result.tag = "Ok"
    /\ run_resolved' = result.value
    /\ pc' = "run_returned"
    /\ UNCHANGED <<source, config, idx, resolved, ret, result, stderr,
                   exit_code>>

\* Mutant: a Prefix definition is given its prefix label only, the label of
\* the count is left out.
ReportLabels_NoCountLabel(err) ==
    IF err.tag = "InvalidCount" THEN 1 ELSE 2

\* ConfigError::report: the number of labels of the report.
ReportLabels(err) ==
    IF err.tag = "InvalidCount" THEN 1
    ELSE (IF err.prev_def.tag = "Singular" THEN 1 ELSE 2)
         + (IF err.curr_def.tag = "Singular" THEN 1 ELSE 2)

Label(span, message) == [span |-> span, message |-> message]

\* ConfigError::report: the labels of one definition of a DuplicateName,
\* `singular_name` and `singular_kind` being the messages of a Singular
\* definition (they differ between prev_def and curr_def).  The messages
\* are the code's, less the quotation marks it puts around the prefix.
DefinitionLabels(def, singular_name, singular_kind) ==
    IF def.tag = "Singular"
    THEN << Label(def.source.span,
                  IF def.source.tag = "Name" THEN singular_name
                  ELSE singular_kind) >>
    ELSE << Label(def.prefix_span.span,
                  IF def.prefix_span.tag = "Name"
                  THEN "prefix " \o def.prefix \o " defined here"
                  ELSE "prefix " \o def.prefix
                       \o " derived from client kind here"),
            Label(def.count_span, "count defined here") >>

\* ConfigError::report: the labels of the report, in the order added.
ReportMessages(err) ==
    IF err.tag = "InvalidCount"
    THEN << Label(err.span, "cannot equal to zero") >>
    ELSE DefinitionLabels(err.prev_def, "previous definition here",
             "previous definition derived from client kind here")
         \o DefinitionLabels(err.curr_def, "second definition appears here",
             "second definition appears here, derived from client")

\* Mutant: when the report cannot be printed the plain message is printed
\* and the reporter returns to run.
ReportConfigError_FallbackReturns ==
    /\ pc = "resolve_returned"
    /\ result.tag = "Err"
    /\ \E printed \in BOOLEAN :
         /\ stderr' = IF printed
                      THEN [tag |-> "report",
                            span |-> ErrorSpan(result.error),
                            labels |-> ReportLabels(result.error),
                            messages |-> ReportMessages(result.error)]
                      ELSE [tag |-> "plain"]
         /\ exit_code' = IF printed
                         THEN [tag |-> "Exit", code |-> EX_CONFIG]
                         ELSE exit_code
         /\ pc' = IF printed THEN "exited" ELSE "run_returned"
    /\ UNCHANGED <<source, config, idx, resolved, ret, result, run_resolved>>

\* report_config_error: the report, or a plain message when it cannot be
\* printed; the process exits in both cases.
ReportConfigError ==
    /\ pc = "resolve_returned"
    /\ result.tag = "Err"
    /\ \E printed \in BOOLEAN :
         stderr' = IF printed
                   THEN [tag |-> "report", span |-> ErrorSpan(result.error),
                         labels |-> ReportLabels(result.error),
                         messages |-> ReportMessages(result.error)]
                   ELSE [tag |-> "plain"]
    /\ exit_code' = [tag |-> "Exit", code |-> EX_CONFIG]
    /\ pc' = "exited"
    /\ UNCHANGED <<source, config, idx, resolved, ret, result, run_resolved>>

Next ==
    \/ ParseOk
    \/ ParseErr
    \/ ReportTomlError
    \/ ResolveNew
    \/ ResolveNode
    \/ ResolveErr
    \/ ResolveOk
    \/ RunOk
    \/ ReportConfigError

Spec == Init /\ [][Next]_vars

\* The start command on the example config of two node tables and on the
\* configs around it.
InitExample ==
    /\ Sources(source, ExampleNames, ExampleSpecs, ExampleNodes,
               ExampleValidators)
    /\ StartState

SpecExample == InitExample /\ [][Next]_vars

(***************************************************************************)
(* Vocabulary of the properties: what a config asks for, stated on the     *)
(* config alone.                                                           *)
(***************************************************************************)
\* resolve has returned to run.
Returned == result.tag # "None"

\* The identity basis of a node table: its name, else its client kind.
Basis(node) ==
    IF node.name # NoName THEN node.name ELSE ClientKindToString(node.client)

BasisSource(node) ==
    IF node.name # NoName THEN NameSource(node.name_span)
    ELSE KindSource(node.client_span)

RECURSIVE SumCount(_)
SumCount(list) ==
    IF list = <<>> THEN 0
    ELSE list[1].count + SumCount(Tail(list))

RECURSIVE SumValidators(_)
SumValidators(list) ==
    IF list = <<>> THEN 0
    ELSE list[1].count * list[1].validator_count + SumValidators(Tail(list))

\* The instances a config asks for: <<i, k>> is instance k of the spec at
\* position i.
Instances(list) ==
    UNION {{<<i, k>> : k \in 0..(list[i].count - 1)} : i \in DOMAIN list}

\* Instance a comes before instance b in config order.
Before(a, b) == a[1] < b[1] \/ (a[1] = b[1] /\ a[2] < b[2])

\* The number of instances that the specs before position i with count > 1
\* and the basis of spec i ask for.
RECURSIVE EarlierOfPrefix(_, _, _)
EarlierOfPrefix(list, i, j) ==
    IF j >= i THEN 0
    ELSE (IF list[j].count > 1 /\ Basis(list[j]) = Basis(list[i])
          THEN list[j].count ELSE 0)
         + EarlierOfPrefix(list, i, j + 1)

\* The name and the definition the config gives instance p.
NameOf(list, p) ==
    IF list[p[1]].count = 1 THEN Basis(list[p[1]])
    ELSE Basis(list[p[1]]) \o "_"
         \o ToString(EarlierOfPrefix(list, p[1], 1) + p[2])

DefOf(list, p) ==
    IF list[p[1]].count = 1 THEN Singular(BasisSource(list[p[1]]))
    ELSE Prefix(Basis(list[p[1]]), BasisSource(list[p[1]]),
                list[p[1]].count_span)

AllCountsPositive(list) == \A i \in DOMAIN list : list[i].count >= 1

NamesDistinct(list) ==
    \A a, b \in Instances(list) :
        a # b => NameOf(list, a) # NameOf(list, b)

\* Instance p bears a name that an earlier instance bears.
Collides(list, p) ==
    \E q \in Instances(list) :
        Before(q, p) /\ NameOf(list, q) = NameOf(list, p)

\* Nothing fails before instance p: every earlier spec has count >= 1 and
\* no earlier instance collides.
CleanBefore(list, p) ==
    /\ \A j \in 1..(p[1] - 1) : list[j].count >= 1
    /\ \A q \in Instances(list) : Before(q, p) => ~Collides(list, q)

\* Nothing fails before the spec at position i.
CleanBeforeSpec(list, i) == CleanBefore(list, <<i, 0>>)

\* The validator indices of a resolved node, as a set.
IndexSet(node) == {node.validators[m] : m \in DOMAIN node.validators}

(***************************************************************************)
(* C1.  For every config in which every node spec has count >= 1 and all   *)
(* resulting node names are distinct, resolve succeeds, the number of      *)
(* resolved nodes is the sum of count and the number of validators is the  *)
(* sum of count * validator_count.                                         *)
(***************************************************************************)
C1_ValidConfigResolves ==
    (Returned /\ AllCountsPositive(config) /\ NamesDistinct(config)) =>
        /\ result.tag = "Ok"
        /\ Cardinality(DOMAIN result.value.nodes) = SumCount(config)
        /\ Len(result.value.validators) = SumValidators(config)

\* A resolved config of three specs, one of them with several instances
\* and one with several validators per node.
C1_Witness ==
    /\ result.tag = "Ok"
    /\ Len(config) = 3
    /\ \E i \in DOMAIN config : config[i].count > 1
    /\ \E i \in DOMAIN config : config[i].validator_count > 1
    /\ Cardinality(DOMAIN result.value.nodes) = SumCount(config)

(***************************************************************************)
(* C2.  The index of a generated name `{prefix}_{i}` comes from one        *)
(* counter per prefix, shared by all specs with count > 1 of that prefix   *)
(* and continuing in config order: instance k of such a spec is named      *)
(* with k plus the number of instances the earlier specs of that prefix    *)
(* asked for, so a spec with count = 3 yields X_0, X_1, X_2 and a later    *)
(* spec with count = 2 yields X_3, X_4.                                    *)
(***************************************************************************)
C2_SharedContinuingCounter ==
    result.tag = "Ok" =>
        \A p \in Instances(config) :
            config[p[1]].count > 1 =>
                LET name == Basis(config[p[1]]) \o "_"
                            \o ToString(EarlierOfPrefix(config, p[1], 1) + p[2])
                IN /\ name \in DOMAIN result.value.nodes
                   /\ result.value.nodes[name].def.tag = "Prefix"
                   /\ result.value.nodes[name].def.count_span
                          = config[p[1]].count_span

\* The config of the claim: count = 3 then count = 2, both without a name
\* and of kind zeam; zeam_0..zeam_2 come from the first spec, zeam_3 and
\* zeam_4 from the second.
C2_Witness ==
    /\ result.tag = "Ok"
    /\ Len(config) = 2
    /\ config[1].name = NoName /\ config[1].client = "Zeam"
    /\ config[1].count = 3
    /\ config[2].name = NoName /\ config[2].client = "Zeam"
    /\ config[2].count = 2
    /\ DOMAIN result.value.nodes
           = {"zeam_0", "zeam_1", "zeam_2", "zeam_3", "zeam_4"}
    /\ result.value.nodes["zeam_2"].def.count_span = config[1].count_span
    /\ result.value.nodes["zeam_3"].def.count_span = config[2].count_span
    /\ result.value.counters["zeam"] = 4

(***************************************************************************)
(* C3.  In every successfully resolved network the validator index sets    *)
(* of the nodes are pairwise disjoint and their union is exactly           *)
(* 0 .. |validators| - 1.                                                  *)
(***************************************************************************)
C3_IndexSetsPartitionPool ==
    result.tag = "Ok" =>
        LET nodes == result.value.nodes
        IN /\ \A m, n \in DOMAIN nodes :
                m # n => IndexSet(nodes[m]) \cap IndexSet(nodes[n]) = {}
           /\ UNION {IndexSet(nodes[n]) : n \in DOMAIN nodes}
                  = 0..(Len(result.value.validators) - 1)

\* A resolved network of at least three nodes, two of them with several
\* validators.
C3_Witness ==
    /\ result.tag = "Ok"
    /\ Cardinality(DOMAIN result.value.nodes) >= 3
    /\ \E m, n \in DOMAIN result.value.nodes :
          /\ m # n
          /\ Cardinality(IndexSet(result.value.nodes[m])) >= 2
          /\ Cardinality(IndexSet(result.value.nodes[n])) >= 2

(***************************************************************************)
(* C4.  Singular and generated names share one name table: the first       *)
(* instance whose name an earlier instance already bears, whichever kind   *)
(* of definition either has, makes resolve fail with DuplicateName for     *)
(* that name, prev_def being the definition stored first and curr_def the  *)
(* definition of the colliding instance; a returned topology holds every   *)
(* instance under its own name and definition, none discarded or           *)
(* overwritten.                                                            *)
(***************************************************************************)
C4_OneNameTable ==
    Returned =>
        /\ \A p \in Instances(config) :
              (Collides(config, p) /\ CleanBefore(config, p)) =>
                  \E q \in Instances(config) :
                      /\ Before(q, p)
                      /\ NameOf(config, q) = NameOf(config, p)
                      /\ result = Err(DuplicateName(NameOf(config, p),
                                                    DefOf(config, p),
                                                    DefOf(config, q)))
        /\ result.tag = "Ok" =>
              /\ \A p \in Instances(config) :
                    /\ NameOf(config, p) \in DOMAIN result.value.nodes
                    /\ result.value.nodes[NameOf(config, p)].def
                           = DefOf(config, p)
              /\ Cardinality(DOMAIN result.value.nodes)
                     = Cardinality(Instances(config))

\* A generated name (zeam_0 of a kind-derived prefix) was stored first and
\* a later singular name collides with it.
C4_Witness ==
    /\ result.tag = "Err"
    /\ result.error.tag = "DuplicateName"
    /\ result.error.name = "zeam_0"
    /\ result.error.prev_def.tag = "Prefix"
    /\ result.error.curr_def.tag = "Singular"

\* The other direction: a singular name was stored first and a generated
\* name collides with it.
C4_WitnessPrefixSecond ==
    /\ result.tag = "Err"
    /\ result.error.tag = "DuplicateName"
    /\ result.error.prev_def.tag = "Singular"
    /\ result.error.curr_def.tag = "Prefix"

(***************************************************************************)
(* C5, as claimed.  For every config that contains a spec with count = 0,  *)
(* resolve fails with InvalidCount whose span is the count span of such a  *)
(* spec, whatever the other specs are.                                     *)
(***************************************************************************)
C5_Original ==
    (Returned /\ \E i \in DOMAIN config : config[i].count = 0) =>
        /\ result.tag = "Err"
        /\ result.error.tag = "InvalidCount"
        /\ \E i \in DOMAIN config :
              /\ config[i].count = 0
              /\ result.error.span = config[i].count_span

(***************************************************************************)
(* C5, amended.  For every config that contains a spec with count = 0,     *)
(* resolve fails; when nothing fails before that spec (every earlier spec  *)
(* has count >= 1 and no earlier instance repeats a name) the error is     *)
(* InvalidCount whose span is that spec's count span, whatever the specs   *)
(* after it are.                                                           *)
(***************************************************************************)
C5_FirstZeroCountReported ==
    Returned =>
        \A i \in DOMAIN config :
            config[i].count = 0 =>
                /\ result.tag = "Err"
                /\ CleanBeforeSpec(config, i) =>
                       result = Err(InvalidCount(config[i].count_span))

\* The spec with count = 0 stands between a valid spec and a spec that
\* would fail too, and its count span is the one reported.
C5_Witness ==
    /\ Len(config) = 3
    /\ config[1].count > 1
    /\ config[2].count = 0
    /\ config[3].count = 0
    /\ result = Err(InvalidCount(config[2].count_span))
    /\ pc = "exited"

(***************************************************************************)
(* C6.  Two specs with count = 1 and the same explicit name, the second    *)
(* being where the resolution first fails, make resolve fail with          *)
(* DuplicateName for that name: prev_def is Singular(Name(first spec's     *)
(* name span)), curr_def is Singular(Name(second spec's name span)), and   *)
(* ConfigError::span() is the second spec's name span.                     *)
(***************************************************************************)
C6_SameExplicitName ==
    Returned =>
        \A i, j \in DOMAIN config :
            ( /\ i < j
              /\ config[i].count = 1 /\ config[j].count = 1
              /\ config[i].name # NoName
              /\ config[i].name = config[j].name
              /\ CleanBeforeSpec(config, j) ) =>
                /\ result.tag = "Err"
                /\ result.error =
                      DuplicateName(config[i].name,
                                    Singular(NameSource(config[j].name_span)),
                                    Singular(NameSource(config[i].name_span)))
                /\ ErrorSpan(result.error) = config[j].name_span

\* Two specs named "zeam" with count = 1, a spec of another name between
\* them; the error names the first as the previous definition.
C6_Witness ==
    /\ Len(config) = 3
    /\ config[1].name = "zeam" /\ config[1].count = 1
    /\ config[2].name = "zeam_0" /\ config[2].count = 1
    /\ config[3].name = "zeam" /\ config[3].count = 1
    /\ result.tag = "Err"
    /\ result.error.tag = "DuplicateName"
    /\ result.error.name = "zeam"
    /\ result.error.prev_def = Singular(NameSource(NameSpan(1)))
    /\ ErrorSpan(result.error) = NameSpan(3)

(***************************************************************************)
(* C7.  Validator indices are handed out in config order, not grouped by   *)
(* prefix: in a successful resolution, if instance a comes before          *)
(* instance b (by spec position, then by position within the spec), every  *)
(* validator index of a's node is smaller than every index of b's node.    *)
(***************************************************************************)
C7_IndicesInConfigOrder ==
    result.tag = "Ok" =>
        \A a, b \in Instances(config) :
            Before(a, b) =>
                \A x \in IndexSet(result.value.nodes[NameOf(config, a)]) :
                    \A y \in IndexSet(result.value.nodes[NameOf(config, b)]) :
                        x < y

\* Two specs of the prefix zeam separated by a spec of another name: the
\* nodes of the third spec, zeam_2 and zeam_3, get larger indices than the
\* node of the second.
C7_Witness ==
    /\ result.tag = "Ok"
    /\ Len(config) = 3
    /\ config[1].name = NoName /\ config[1].count = 2
    /\ config[2].name = "zeam" /\ config[2].count = 1
    /\ config[3].name = NoName /\ config[3].count = 2
    /\ config[2].validator_count = 2
    /\ result.value.nodes["zeam_1"].validators = <<1>>
    /\ result.value.nodes["zeam"].validators = <<2, 3>>
    /\ result.value.nodes["zeam_2"].validators = <<4>>
    /\ result.value.nodes["zeam_3"].validators = <<5>>

(***************************************************************************)
(* C8.  Every resolved node's validator list holds exactly validator_count *)
(* indices of its spec (one list per instance), consecutive integers in    *)
(* increasing order that are positions of the pool, and no index is in     *)
(* the lists of two nodes.                                                 *)
(***************************************************************************)
C8_ContiguousRanges ==
    result.tag = "Ok" =>
        /\ \A p \in Instances(config) :
              LET v == result.value.nodes[NameOf(config, p)].validators
              IN /\ Len(v) = config[p[1]].validator_count
                 /\ \A m \in 1..(Len(v) - 1) : v[m + 1] = v[m] + 1
                 /\ \A m \in 1..Len(v) :
                       v[m] \in 0..(Len(result.value.validators) - 1)
        /\ \A p, q \in Instances(config) :
              p # q =>
                  IndexSet(result.value.nodes[NameOf(config, p)])
                  \cap IndexSet(result.value.nodes[NameOf(config, q)]) = {}

\* A spec with count = 2 and validator_count = 3 after another spec: each
\* of its two nodes has its own three consecutive indices.
C8_Witness ==
    /\ result.tag = "Ok"
    /\ Len(config) = 2
    /\ config[1].count = 1 /\ config[1].validator_count = 1
    /\ config[2].name = NoName
    /\ config[2].count = 2 /\ config[2].validator_count = 3
    /\ result.value.nodes["zeam_0"].validators = <<1, 2, 3>>
    /\ result.value.nodes["zeam_1"].validators = <<4, 5, 6>>

(***************************************************************************)
(* C9.  resolve is all-or-nothing: when a spec fails (the config has a     *)
(* spec with count = 0 or two instances of one name) the caller receives   *)
(* the error alone: the value returned holds no node table, validator pool *)
(* or counters, the state built from the earlier specs is dropped, and     *)
(* run never binds a resolved topology.                                    *)
(***************************************************************************)
C9_AllOrNothing ==
    /\ (Returned /\ (~AllCountsPositive(config) \/ ~NamesDistinct(config))) =>
          /\ result.tag = "Err"
          /\ DOMAIN result = {"tag", "error"}
          /\ result.error.tag \in {"InvalidCount", "DuplicateName"}
          /\ DOMAIN result.error \cap {"nodes", "validators", "counters"} = {}
          /\ resolved = None
          /\ run_resolved = None
    /\ ret.tag \in {"InvalidCount", "DuplicateName"} =>
          /\ result.tag # "Ok"
          /\ run_resolved = None
    /\ ~Returned => run_resolved = None

\* The third spec fails after two specs have put nodes and validators into
\* the tables; the caller holds the error only.
C9_Witness ==
    /\ pc = "exited"
    /\ Len(config) = 3
    /\ config[1].count = 2 /\ config[2].count = 2
    /\ ret.tag = "DuplicateName"
    /\ result = Err(ret)
    /\ resolved = None
    /\ run_resolved = None

(***************************************************************************)
(* The example config: [{name: "a", client: "ream"},                       *)
(* {client: "zeam", count: 2, validator_count: 3}], the fields it leaves   *)
(* out taking their defaults.                                              *)
(***************************************************************************)
ExampleConfig ==
    << [name |-> "a", client |-> "Ream", count |-> default_count,
        validator_count |-> default_validator_count],
       [name |-> NoName, client |-> "Zeam", count |-> 2,
        validator_count |-> 3] >>

(***************************************************************************)
(* C10, as claimed.  The example config resolves to exactly the nodes "a"  *)
(* with validators 0..3, "zeam_0" with 3..6 and "zeam_1" with 6..9, and to *)
(* 9 validators in total.                                                  *)
(***************************************************************************)
C10_Original ==
    (Returned /\ source = Parsed(ExampleConfig)) =>
        /\ result.tag = "Ok"
        /\ DOMAIN result.value.nodes = {"a", "zeam_0", "zeam_1"}
        /\ result.value.nodes["a"].validators = <<0, 1, 2>>
        /\ result.value.nodes["zeam_0"].validators = <<3, 4, 5>>
        /\ result.value.nodes["zeam_1"].validators = <<6, 7, 8>>
        /\ Len(result.value.validators) = 9

(***************************************************************************)
(* C10, amended.  The example config resolves to exactly the nodes "a"     *)
(* with the one validator 0 (validator_count defaults to 1), "zeam_0" with *)
(* validators 1..4 and "zeam_1" with validators 4..7, and to 7 validators  *)
(* in total.                                                               *)
(***************************************************************************)
C10_ExampleResolves ==
    (Returned /\ source = Parsed(ExampleConfig)) =>
        /\ result.tag = "Ok"
        /\ DOMAIN result.value.nodes = {"a", "zeam_0", "zeam_1"}
        /\ result.value.nodes["a"].validators = <<0>>
        /\ result.value.nodes["zeam_0"].validators = <<1, 2, 3>>
        /\ result.value.nodes["zeam_1"].validators = <<4, 5, 6>>
        /\ Len(result.value.validators) = 7

\* The start command has resolved the example config and returned.
C10_Witness ==
    /\ source = Parsed(ExampleConfig)
    /\ pc = "run_returned"
    /\ run_resolved = result.value
    /\ Len(run_resolved.validators) = 7

(***************************************************************************)
(* C11.  Every validator slot appended to the pool holds the keys of one   *)
(* call of the key generation with activation epoch 0 and a window of      *)
(* 262144 epochs: the private key returned in private_key, the public key  *)
(* returned in public_key.  The code pushes two empty vectors instead (the *)
(* call is commented out), so this fails with the first slot.              *)
(***************************************************************************)
C11_SlotHoldsGeneratedKeys ==
    resolved # None =>
        \A v \in DOMAIN resolved.validators :
            LET keys == generate_keypair(0, NUM_ACTIVE_EPOCHS)
            IN /\ resolved.validators[v].public_key = keys[1]
               /\ resolved.validators[v].private_key = keys[2]

(***************************************************************************)
(* C12, as claimed.  When a spec without a name takes its identity (its    *)
(* name, or its prefix when count > 1) from its client kind and a later    *)
(* spec gives that same string as its name, resolve fails with a           *)
(* DuplicateName whose definition of the earlier spec carries Kind and     *)
(* whose definition of the later spec carries Name.  (Read in the claim's  *)
(* favour: the later spec has count = 1, so that its name is used as it    *)
(* is, nothing fails before it and no count is zero.)                      *)
(***************************************************************************)
C12_Original ==
    Returned =>
        \A i, j \in DOMAIN config :
            (/\ i < j
             /\ config[i].name = NoName
             /\ config[j].name = ClientKindToString(config[i].client)
             /\ config[j].count = 1
             /\ AllCountsPositive(config)
             /\ CleanBeforeSpec(config, j)) =>
                /\ result.tag = "Err"
                /\ result.error.tag = "DuplicateName"
                /\ LET prev == result.error.prev_def
                       curr == result.error.curr_def
                   IN /\ KindSource(config[i].client_span)
                            \in {IF prev.tag = "Singular" THEN prev.source
                                 ELSE prev.prefix_span}
                      /\ NameSource(config[j].name_span)
                            \in {IF curr.tag = "Singular" THEN curr.source
                                 ELSE curr.prefix_span}

(***************************************************************************)
(* C12, amended.  When a spec with count = 1 and no name takes its name    *)
(* from its client kind, a later spec with count = 1 gives that same       *)
(* string as its name, and nothing fails before the later spec, resolve    *)
(* fails with DuplicateName of that name, prev_def = Singular(Kind(client  *)
(* span of the earlier spec)) and curr_def = Singular(Name(name span of    *)
(* the later spec)); the report labels the former "previous definition     *)
(* derived from client kind here" and the latter "second definition        *)
(* appears here".  A prefix never collides with a name equal to it: in no  *)
(* DuplicateName is the name the prefix of one of its definitions.         *)
(***************************************************************************)
C12_KindNameCollision ==
    Returned =>
        /\ \A i, j \in DOMAIN config :
            (/\ i < j
             /\ config[i].name = NoName /\ config[i].count = 1
             /\ config[j].name = ClientKindToString(config[i].client)
             /\ config[j].count = 1
             /\ CleanBeforeSpec(config, j)) =>
                /\ result =
                     Err(DuplicateName(config[j].name,
                             Singular(NameSource(config[j].name_span)),
                             Singular(KindSource(config[i].client_span))))
                /\ stderr.tag = "report" =>
                     stderr.messages =
                       << Label(config[i].client_span,
                            "previous definition derived from client kind here"),
                          Label(config[j].name_span,
                            "second definition appears here") >>
        /\ (result.tag = "Err" /\ result.error.tag = "DuplicateName") =>
              \A def \in {result.error.prev_def, result.error.curr_def} :
                  def.tag = "Prefix" => def.prefix # result.error.name

\* The kind-derived name zeam and the explicit name zeam after it: the
\* report of the collision has been printed.
C12_Witness ==
    /\ pc = "exited"
    /\ stderr.tag = "report"
    /\ Len(config) = 2
    /\ config[1].name = NoName /\ config[1].count = 1
    /\ config[2].name = "zeam" /\ config[2].count = 1
    /\ stderr.messages[1].message =
           "previous definition derived from client kind here"
    /\ stderr.messages[2].message = "second definition appears here"

\* What the ordered list of node tables determines: the specs resolved one
\* after the other from position i on, up to the first error.
RECURSIVE OutcomeFrom(_, _, _)
OutcomeFrom(self, list, i) ==
    IF i > Len(list) THEN Ok(self)
    ELSE LET r == ResolveNodeConfig(self, list[i])
         IN IF r.err = NoError THEN OutcomeFrom(r.self, list, i + 1)
            ELSE Err(r.err)

PrefixSides(err) ==
    (IF err.prev_def.tag = "Prefix" THEN 1 ELSE 0)
    + (IF err.curr_def.tag = "Prefix" THEN 1 ELSE 0)

(***************************************************************************)
(* C14.  Every DuplicateName that resolve returns has at most one Prefix   *)
(* definition among prev_def and curr_def, and its report has two labels   *)
(* when both are Singular and three (the prefix's and the count's for the  *)
(* Prefix one) when one is Prefix; the report printed has that many.       *)
(***************************************************************************)
C14_TwoOrThreeLabels ==
    (result.tag = "Err" /\ result.error.tag = "DuplicateName") =>
        /\ PrefixSides(result.error) \in {0, 1}
        /\ ReportLabels(result.error) = 2 + PrefixSides(result.error)
        /\ Len(ReportMessages(result.error)) = ReportLabels(result.error)
        /\ stderr.tag = "report" =>
              /\ stderr.labels = 2 + PrefixSides(result.error)
              /\ Len(stderr.messages) = stderr.labels

\* The report of a generated name that meets a singular one has been
\* printed with its three labels: the previous definition, the prefix and
\* the count.
C14_Witness ==
    /\ pc = "exited"
    /\ result.tag = "Err"
    /\ result.error.tag = "DuplicateName"
    /\ result.error.prev_def.tag = "Singular"
    /\ result.error.curr_def.tag = "Prefix"
    /\ stderr.tag = "report"
    /\ stderr.labels = 3
    /\ stderr.messages[3].message = "count defined here"

\* A reporter has been called and has not ended yet.
InReporter ==
    \/ pc = "toml_error"
    \/ pc = "resolve_returned" /\ result.tag = "Err"

ResolveCalled ==
    \/ pc \in {"loop", "failed", "resolve_returned", "run_returned"}
    \/ resolved # None \/ ret # None \/ result # None

(***************************************************************************)
(* C16.  In the start command a parse failure is handled before any        *)
(* resolution: when the text does not parse, resolve is never called, no   *)
(* ConfigError exists and only the TOML reporter runs; resolve is called   *)
(* only on the parsed config, and the config reporter runs only on the     *)
(* error that resolve returned.                                            *)
(***************************************************************************)
C16_ParseBeforeResolve ==
    /\ ~source.parses =>
          /\ pc \in {"parse", "toml_error", "exited"}
          /\ ~ResolveCalled
          /\ config = <<>> /\ idx = 0 /\ run_resolved = None
          /\ ~ENABLED (ResolveNew \/ ResolveNode \/ ResolveErr \/ ResolveOk
                       \/ RunOk \/ ReportConfigError)
          /\ stderr.tag = "report" => DOMAIN stderr = {"tag", "labels"}
    /\ (ResolveCalled \/ pc = "resolve") =>
          /\ source.parses
          /\ config = Spanned(source.node)
          /\ ~ENABLED (ParseOk \/ ParseErr \/ ReportTomlError)
    /\ ENABLED ReportTomlError => (~source.parses /\ ~ResolveCalled)
    /\ ENABLED ReportConfigError =>
          /\ source.parses
          /\ result.tag = "Err"
          /\ result.error = ret
          /\ ret.tag \in {"InvalidCount", "DuplicateName"}
    /\ (pc = "exited" /\ source.parses) =>
          /\ result.tag = "Err"
          /\ stderr.tag = "report" => stderr.span = ErrorSpan(result.error)

\* The text did not parse: the TOML reporter has printed its report and the
\* process has exited without resolve having been called.
C16_Witness ==
    /\ pc = "exited"
    /\ ~source.parses
    /\ stderr = [tag |-> "report", labels |-> 1]
    /\ ~ResolveCalled
    /\ exit_code = [tag |-> "Exit", code |-> EX_CONFIG]

(***************************************************************************)
(* C17.  Processing a spec with count = 0 changes nothing: the step that   *)
(* resolves such a spec leaves the name table, the validator pool and the  *)
(* prefix counters as they were and returns InvalidCount of that spec's    *)
(* count span, also when the spec's name is already in the name table.     *)
(***************************************************************************)
C17_ZeroCountNoEffect ==
    [][(pc = "loop" /\ idx <= Len(config) /\ config[idx].count = 0) =>
          /\ resolved' = resolved
          /\ ret' = InvalidCount(config[idx].count_span)
          /\ pc' = "failed"
          /\ UNCHANGED <<result, run_resolved, stderr, exit_code>>]_vars

\* A spec with count = 0 has just been processed after specs that filled
\* the tables, its name being one of the names in the name table.
C17_Witness ==
    /\ pc = "failed"
    /\ ret = InvalidCount(config[idx - 1].count_span)
    /\ config[idx - 1].count = 0
    /\ Basis(config[idx - 1]) \in DOMAIN resolved.nodes
    /\ DOMAIN resolved.counters # {}
    /\ Len(resolved.validators) >= 2

\* A spec has failed: its error is in hand or has been returned.
Failed == ret.tag \in {"InvalidCount", "DuplicateName"}

\* Instance p is where resolution of the config fails, and err is its error.
FailsWith(list, p, err) ==
    /\ CleanBefore(list, p)
    /\ IF list[p[1]].count = 0
       THEN p[2] = 0 /\ err = InvalidCount(list[p[1]].count_span)
       ELSE /\ p \in Instances(list)
            /\ \E q \in Instances(list) :
                  /\ Before(q, p)
                  /\ NameOf(list, q) = NameOf(list, p)
                  /\ err = DuplicateName(NameOf(list, p), DefOf(list, p),
                                         DefOf(list, q))

(***************************************************************************)
(* C18.  Resolution is fail-fast in config order.  When a spec has failed, *)
(* nothing failed before it, and the error is that of its first failing    *)
(* instance (InvalidCount of its count span, or the DuplicateName of the   *)
(* first instance whose name is taken); the pool then ends with that       *)
(* instance's validators, no later instance having been resolved.  From    *)
(* then on no spec is processed: the loop position stays, the error is     *)
(* returned as it is, and the tables change no more (they are dropped).    *)
(***************************************************************************)
C18_FailFast ==
    /\ [](Failed =>
            /\ idx - 1 \in DOMAIN config
            /\ \E k \in 0..config[idx - 1].count :
                  /\ FailsWith(config, <<idx - 1, k>>, ret)
                  /\ pc = "failed" =>
                        Len(resolved.validators)
                          = SumValidators(SubSeq(config, 1, idx - 2))
                            + (IF config[idx - 1].count = 0 THEN 0
                               ELSE (k + 1) * config[idx - 1].validator_count)
            /\ pc # "failed" => (result = Err(ret) /\ resolved = None)
            /\ run_resolved = None)
    /\ [][Failed =>
            /\ UNCHANGED <<idx, ret, config, run_resolved>>
            /\ resolved' \in {resolved, None}
            /\ result' \in {result, Err(ret)}]_vars

\* The first instance of a spec of two has failed and has been reported; a
\* second instance and a later spec were never resolved.
C18_Witness ==
    /\ pc = "exited"
    /\ Failed
    /\ idx - 1 < Len(config)
    /\ config[idx - 1].count = 2
    /\ FailsWith(config, <<idx - 1, 0>>, ret)
    /\ result = Err(ret)

\* The specs resolved so far, while the loop runs.
Processed == SubSeq(config, 1, idx - 1)

\* The positions of the specs of the list that have count > 1 and basis p.
PrefixSpecs(list, p) ==
    {i \in DOMAIN list : list[i].count > 1 /\ Basis(list[i]) = p}

RECURSIVE SumCountOf(_, _)
SumCountOf(list, positions) ==
    IF positions = {} THEN 0
    ELSE LET i == CHOOSE j \in positions : TRUE
         IN list[i].count + SumCountOf(list, positions \ {i})

(***************************************************************************)
(* C19.  After every successfully processed spec the counter table and the *)
(* node table agree: a prefix is in counters exactly when a processed spec *)
(* with count > 1 has it as basis, its counter + 1 is the sum of the       *)
(* counts of those specs, and the nodes with a Prefix definition of it are *)
(* exactly prefix_0 .. prefix_counter; a processed spec with count = 1 is  *)
(* stored under its basis as it is, with a Singular definition, and the    *)
(* step that resolves a spec with count = 1 leaves every counter as it is. *)
(***************************************************************************)
C19_CountersMatchNodes ==
    /\ [](pc = "loop" =>
            /\ DOMAIN resolved.counters
                  = {Basis(Processed[i]) :
                        i \in {j \in DOMAIN Processed : Processed[j].count > 1}}
            /\ \A p \in DOMAIN resolved.counters :
                  /\ resolved.counters[p] + 1
                        = SumCountOf(Processed, PrefixSpecs(Processed, p))
                  /\ {n \in DOMAIN resolved.nodes :
                         /\ resolved.nodes[n].def.tag = "Prefix"
                         /\ resolved.nodes[n].def.prefix = p}
                        = {GeneratedName(p, k) : k \in 0..resolved.counters[p]}
            /\ \A i \in DOMAIN Processed :
                  Processed[i].count = 1 =>
                      /\ Basis(Processed[i]) \in DOMAIN resolved.nodes
                      /\ resolved.nodes[Basis(Processed[i])].def
                            = Singular(BasisSource(Processed[i])))
    /\ [][(pc = "loop" /\ idx <= Len(config) /\ config[idx].count = 1) =>
            resolved'.counters = resolved.counters]_vars

\* Two specs of the prefix zeam (2 + 2 instances) and the singular name
\* zeam have been processed: zeam_0 .. zeam_3 and zeam are in the table.
C19_Witness ==
    /\ pc = "loop"
    /\ idx = 4
    /\ DOMAIN resolved.counters = {"zeam"}
    /\ resolved.counters["zeam"] = 3
    /\ DOMAIN resolved.nodes
          = {"zeam", "zeam_0", "zeam_1", "zeam_2", "zeam_3"}
    /\ resolved.nodes["zeam"].def.tag = "Singular"

\* Sequence s begins with sequence t.
StartsWith(s, t) == Len(s) >= Len(t) /\ SubSeq(s, 1, Len(t)) = t

(***************************************************************************)
(* C20.  The validator pool is append-only during resolution: every step   *)
(* of resolve leaves the entries the pool had in their places and only     *)
(* adds entries after them, so the pool's length never decreases; a node   *)
(* that stays in the table keeps its indices, each index of a node is a    *)
(* position of the pool, and the pool returned is the pool built.          *)
(***************************************************************************)
C20_PoolAppendOnly ==
    /\ [](resolved # None =>
            \A n \in DOMAIN resolved.nodes :
                \A m \in DOMAIN resolved.nodes[n].validators :
                    resolved.nodes[n].validators[m]
                        \in 0..(Len(resolved.validators) - 1))
    /\ [][/\ (resolved # None /\ resolved' # None) =>
                /\ Len(resolved'.validators) >= Len(resolved.validators)
                /\ StartsWith(resolved'.validators, resolved.validators)
                /\ pc' = "loop" =>
                      \A n \in DOMAIN resolved.nodes :
                          /\ n \in DOMAIN resolved'.nodes
                          /\ resolved'.nodes[n] = resolved.nodes[n]
          /\ (resolved # None /\ result'.tag = "Ok") =>
                result'.value.validators = resolved.validators]_vars

\* A third spec has extended a pool that held the validators of two nodes.
C20_Witness ==
    /\ pc = "loop"
    /\ idx = 4
    /\ Len(resolved.validators) = SumValidators(config)
    /\ config[1].validator_count = 2
    /\ config[3].validator_count = 1
    /\ StartsWith(resolved.validators,
                  OutcomeFrom(EmptyResolved, SubSeq(config, 1, 2),
                              1).value.validators)

====
